---- MODULE Spec2Model ----
(***************************************************************************)
(* Model of the Applications_Tracker back end: the interviews table and    *)
(* its overlap guard (database.py), the LLM reply normaliser               *)
(* parse_response_to_json (ai_services.py) and the resume-extraction path  *)
(* (ai_services.py, main.py, models.py).                                   *)
(***************************************************************************)
EXTENDS Integers, Sequences, FiniteSets, TLC

(***************************************************************************)
(* Bounds of the model.                                                    *)
(***************************************************************************)
\* timestamps are the integers 0..MaxTime
MaxTime == 3
\* the SERIAL id sequence of the interviews table hands out 1..MaxId
MaxId == 2

\* the same two bounds for the runs with concurrent requests
MaxConcTime == 2
MaxConcId == 2
\* longest reply body that is enumerated character by character
MaxBodyLen == 4
\* longest text the repair step is applied to on its own
MaxRepairLen == 3
\* most experience entries in a provider's reply
MaxExperience == 2
\* most skill entries in a provider's reply
MaxSkills == 1
\* the SERIAL id sequence of the user_profile table hands out 1..MaxProfileId
MaxProfileId == 2
\* the SERIAL id sequence of the applications table hands out 1..MaxAppId
MaxAppId == 2
\* the upload store takes the files 1..MaxFiles
MaxFiles == 2
\* application dates are the integers 0..MaxDate
MaxDate == 1
\* most client handles the AI service constructs in a run
MaxHandles == 3

Times == 0..MaxTime
Ids == 1..MaxId
ConcTimes == 0..MaxConcTime
ConcIds == 1..MaxConcId
Writers == {1, 2}

VARIABLES
    interviews,   \* the rows of table interviews: records [id, start_datetime, end_datetime]
    nextId,       \* next value of the SERIAL column interviews.id
    lastCall,     \* the last Database call that ran to completion
    outcome,      \* what that call returned or raised
    writers,      \* concurrent requests: per writer its position and arguments
    wrapping,     \* how the reply handed to the normaliser was put together
    response,     \* parse_response_to_json's argument, a sequence of characters
    result,       \* what parse_response_to_json returned or raised
    repairs,      \* a text followed by the results of repairing it again and again
    resume,       \* the resume-extraction request: upload and what the provider replies
    profile,      \* the stored user profile (its experience list), if there is one
    http,         \* status of the resume-extraction response, 0 while there is none
    user_profile, \* the rows of table user_profile: records [id, data]
    profileSeq,   \* next value of the SERIAL column user_profile.id
    savers,       \* concurrent save_profile calls: per writer its position and arguments
    profileCall,  \* the last save_profile / get_profile call and what it gave
    applications, \* the rows of table applications: records [id, application_date, cv_file]
    appSeq,       \* next value of the SERIAL column applications.id
    uploads,      \* the files in the upload store uploads/cvs
    fileSeq,      \* the name the next uploaded file gets
    request,      \* the last application request
    status,       \* HTTP status of the last endpoint response, 0 while there is none
    listing,      \* the rows the last request returned, when it was a list operation
    ai,           \* the AI service request in progress
    clients,      \* AIService.openai_client and .anthropic_client: the handle stored, if any
    handleSeq,    \* how many client handles have been constructed
    genaiKey,     \* the API key the google.generativeai module is configured with
    calls         \* concurrent provider calls: per caller its position, key and local client

ivars == <<interviews, nextId, lastCall, outcome, writers>>
nvars == <<wrapping, response, result>>
rvars == <<repairs>>
pvars == <<resume, profile, http>>
uvars == <<user_profile, profileSeq, savers, profileCall>>
\* the state of the parts added to the model after the first four
avars == <<applications, appSeq, uploads, fileSeq>>
hvars == <<request, status, listing>>
kvars == <<clients, handleSeq, genaiKey, calls>>
cvars == <<ai, kvars>>
xvars == <<uvars, avars, hvars, cvars>>

NoCall == [op |-> "none", id |-> 0, start_datetime |-> 0, end_datetime |-> 0]
Idle == [pc |-> "idle", op |-> "none", id |-> 0, start_datetime |-> 0, end_datetime |-> 0,
         outcome |-> "none"]

(***************************************************************************)
(* PostgreSQL's (s1, e1) OVERLAPS (s2, e2), as used by _check_overlap:     *)
(* each pair is ordered first (the earlier value is the start); a period   *)
(* is the half-open interval start <= t < end, or the single instant when  *)
(* both ends are equal.                                                    *)
(***************************************************************************)
Earlier(a, b) == IF a <= b THEN a ELSE b
Later(a, b) == IF a <= b THEN b ELSE a

\* a variant that misses a second period starting inside the first
Overlaps_OneSided(s1, e1, s2, e2) ==
    LET ts1 == Earlier(s1, e1)
        ts2 == Earlier(s2, e2)
        te2 == Later(s2, e2)
    IN  IF ts1 > ts2 THEN ts1 < te2
        ELSE IF ts1 < ts2 THEN FALSE
        ELSE TRUE

Overlaps(s1, e1, s2, e2) ==
    LET ts1 == Earlier(s1, e1)
        te1 == Later(s1, e1)
        ts2 == Earlier(s2, e2)
        te2 == Later(s2, e2)
    IN  IF ts1 > ts2 THEN ts1 < te2
        ELSE IF ts1 < ts2 THEN ts2 < te1
        ELSE TRUE

\* a variant that finds no overlap at all once an exclude_id is given
CheckOverlap_ExcludeIgnored(rows, start_dt, end_dt, exclude_id) ==
    \E r \in rows :
        /\ Overlaps(r.start_datetime, r.end_datetime, start_dt, end_dt)
        /\ r.id # exclude_id
        /\ exclude_id = 0

\* exclude_id = 0 stands for None (SERIAL ids start at 1)
CheckOverlap(rows, start_dt, end_dt, exclude_id) ==
    LET count == Cardinality({r \in rows :
                     /\ Overlaps(r.start_datetime, r.end_datetime, start_dt, end_dt)
                     /\ (exclude_id # 0 => r.id # exclude_id)})
    IN  count > 0

InsertRow(rows, id, start_dt, end_dt) ==
    rows \cup {[id |-> id, start_datetime |-> start_dt, end_datetime |-> end_dt]}

UpdateRow(rows, id, start_dt, end_dt) ==
    {IF r.id = id THEN [r EXCEPT !.start_datetime = start_dt, !.end_datetime = end_dt]
                  ELSE r : r \in rows}

\* a variant that also removes the rows inserted before the one with the id
DeleteRow_UpTo(rows, id) == {r \in rows : r.id > id}

DeleteRow(rows, id) == {r \in rows : r.id # id}

(***************************************************************************)
(* The Database calls, each run to completion (one request at a time).     *)
(***************************************************************************)
CreateInterview(s, e) ==
    /\ nextId <= MaxId
    /\ lastCall' = [op |-> "create", id |-> 0, start_datetime |-> s, end_datetime |-> e]
    /\ IF CheckOverlap(interviews, s, e, 0)
       THEN /\ outcome' = "ValueError"
            /\ UNCHANGED <<interviews, nextId>>
       ELSE /\ interviews' = InsertRow(interviews, nextId, s, e)
            /\ nextId' = nextId + 1
            /\ outcome' = "ok"
    /\ listing' = <<>>
    /\ UNCHANGED <<writers, request, status, nvars, rvars, pvars, uvars, avars, cvars>>

UpdateInterview(id, s, e) ==
    /\ lastCall' = [op |-> "update", id |-> id, start_datetime |-> s, end_datetime |-> e]
    /\ IF CheckOverlap(interviews, s, e, id)
       THEN /\ outcome' = "ValueError"
            /\ UNCHANGED interviews
       ELSE /\ interviews' = UpdateRow(interviews, id, s, e)
            /\ outcome' = IF \E r \in interviews : r.id = id THEN "ok" ELSE "None"
    /\ listing' = <<>>
    /\ UNCHANGED <<nextId, writers, request, status, nvars, rvars, pvars, uvars, avars, cvars>>

DeleteInterview(id) ==
    /\ lastCall' = [op |-> "delete", id |-> id, start_datetime |-> 0, end_datetime |-> 0]
    /\ interviews' = DeleteRow(interviews, id)
    /\ outcome' = "ok"
    /\ listing' = <<>>
    /\ UNCHANGED <<nextId, writers, request, status, nvars, rvars, pvars, uvars, avars, cvars>>

(***************************************************************************)
(* Concurrent requests.  _check_overlap acquires a pooled connection, runs *)
(* its SELECT and releases it; the INSERT / UPDATE then runs on a          *)
(* connection acquired by _fetch_one.  No transaction or lock spans the    *)
(* two statements, so other requests' statements may run between them.     *)
(***************************************************************************)
ConcCheckCreate(w, s, e) ==
    /\ writers[w].pc = "idle"
    /\ nextId + Cardinality({v \in Writers : writers[v].pc = "insert"}) <= MaxConcId
    /\ writers' = [writers EXCEPT ![w] =
            IF CheckOverlap(interviews, s, e, 0)
            THEN [Idle EXCEPT !.op = "create", !.outcome = "ValueError"]
            ELSE [pc |-> "insert", op |-> "create", id |-> 0, start_datetime |-> s,
                  end_datetime |-> e, outcome |-> "none"]]
    /\ UNCHANGED <<interviews, nextId, lastCall, outcome, nvars, rvars, pvars, xvars>>

ConcInsert(w) ==
    /\ writers[w].pc = "insert"
    /\ interviews' = InsertRow(interviews, nextId, writers[w].start_datetime,
                               writers[w].end_datetime)
    /\ nextId' = nextId + 1
    /\ writers' = [writers EXCEPT ![w] = [Idle EXCEPT !.op = "create", !.outcome = "ok"]]
    /\ UNCHANGED <<lastCall, outcome, nvars, rvars, pvars, xvars>>

ConcCheckUpdate(w, id, s, e) ==
    /\ writers[w].pc = "idle"
    /\ writers' = [writers EXCEPT ![w] =
            IF CheckOverlap(interviews, s, e, id)
            THEN [Idle EXCEPT !.op = "update", !.outcome = "ValueError"]
            ELSE [pc |-> "update", op |-> "update", id |-> id, start_datetime |-> s,
                  end_datetime |-> e, outcome |-> "none"]]
    /\ UNCHANGED <<interviews, nextId, lastCall, outcome, nvars, rvars, pvars, xvars>>

ConcUpdate(w) ==
    /\ writers[w].pc = "update"
    /\ interviews' = UpdateRow(interviews, writers[w].id, writers[w].start_datetime,
                               writers[w].end_datetime)
    /\ writers' = [writers EXCEPT ![w] =
            [Idle EXCEPT !.op = "update",
                         !.outcome = IF \E r \in interviews : r.id = writers[w].id
                                     THEN "ok" ELSE "None"]]
    /\ UNCHANGED <<nextId, lastCall, outcome, nvars, rvars, pvars, xvars>>

ConcDelete(w, id) ==
    /\ writers[w].pc = "idle"
    /\ interviews' = DeleteRow(interviews, id)
    /\ writers' = [writers EXCEPT ![w] = [Idle EXCEPT !.op = "delete", !.outcome = "ok"]]
    /\ UNCHANGED <<nextId, lastCall, outcome, nvars, rvars, pvars, xvars>>

(***************************************************************************)
(* The reply normaliser parse_response_to_json.  Text is a sequence of     *)
(* one-character strings.  The replies of the model are written over the   *)
(* characters named below; backslash, sign, fraction and exponent          *)
(* characters do not occur in them.                                        *)
(***************************************************************************)
Openers == {"{", "["}
Closers == {"}", "]"}
\* \s of module re and the whitespace of module json
Whitespace == {" ", "\n", "\t", "\r"}
\* characters below 0x20, which json's strict string scanner refuses
ControlChars == {"\n", "\t", "\r"}
DigitChars == <<"0", "1", "2", "3", "4", "5", "6", "7", "8", "9">>
Digits == {DigitChars[d] : d \in 1..10}
\* the backquote character, which a TLA+ string cannot hold
Backquote == "BACKQUOTE"
FenceOpen == <<Backquote, Backquote, Backquote, "j", "s", "o", "n">>
FenceClose == <<Backquote, Backquote, Backquote>>

Min(S) == CHOOSE x \in S : \A y \in S : x <= y

MatchAt(t, i, pat) ==
    /\ i >= 1
    /\ i + Len(pat) - 1 <= Len(t)
    /\ \A k \in 1..Len(pat) : t[i + k - 1] = pat[k]

\* the position after the run of whitespace that starts at i
RECURSIVE SkipWs(_, _)
SkipWs(t, i) == IF i <= Len(t) /\ t[i] \in Whitespace THEN SkipWs(t, i + 1) ELSE i

\* the closers that end a match of  ```json\s*(\{|\[).*?(\]|\})\s*```  begun at i
FencedEnds(t, i) ==
    LET p == SkipWs(t, i + Len(FenceOpen))
    IN  IF MatchAt(t, i, FenceOpen) /\ p <= Len(t) /\ t[p] \in Openers
        THEN {q \in (p + 1)..Len(t) :
                 t[q] \in Closers /\ MatchAt(t, SkipWs(t, q + 1), FenceClose)}
        ELSE {}

\* re.search(r'```json\s*(\{|\[).*?(\]|\})\s*```', response, re.DOTALL):
\* leftmost start, then the nearest closer (non-greedy .*?) that completes it
SearchFenced(t) ==
    LET starts == {i \in 1..Len(t) : FencedEnds(t, i) # {}}
    IN  IF starts = {}
        THEN [found |-> FALSE, group1 |-> "", group2 |-> ""]
        ELSE LET i == Min(starts)
             IN  [found |-> TRUE,
                  group1 |-> t[SkipWs(t, i + Len(FenceOpen))],
                  group2 |-> t[Min(FencedEnds(t, i))]]

\* a variant that pairs an opener only with the closer of its own kind
SearchBare_SameKind(t) ==
    LET Closer(c) == IF c = "{" THEN "}" ELSE "]"
        starts == {p \in 1..Len(t) :
                      t[p] \in Openers /\ \E q \in (p + 1)..Len(t) : t[q] = Closer(t[p])}
    IN  IF starts = {}
        THEN [found |-> FALSE, group0 |-> <<>>]
        ELSE LET p == Min(starts)
             IN  [found |-> TRUE,
                  group0 |-> SubSeq(t, p, Min({q \in (p + 1)..Len(t) : t[q] = Closer(t[p])}))]

\* re.search(r'(\{|\[).*?(\]|\})', response, re.DOTALL): the leftmost opener
\* that has a closer after it, up to the first closer after it
SearchBare(t) ==
    LET starts == {p \in 1..Len(t) :
                      t[p] \in Openers /\ \E q \in (p + 1)..Len(t) : t[q] \in Closers}
    IN  IF starts = {}
        THEN [found |-> FALSE, group0 |-> <<>>]
        ELSE LET p == Min(starts)
             IN  [found |-> TRUE,
                  group0 |-> SubSeq(t, p, Min({q \in (p + 1)..Len(t) : t[q] \in Closers}))]

(***************************************************************************)
(* json.loads.  A value is a record: t is its kind ("num", "str", "arr",   *)
(* "obj", "true", "false", "null"), n the number, s the characters of a    *)
(* string, a the items of an array or the values of an object, k the keys  *)
(* of an object in insertion order.                                        *)
(***************************************************************************)
NoValue == [t |-> "none", n |-> 0, s |-> <<>>, a |-> <<>>, k |-> <<>>]
JNum(n) == [NoValue EXCEPT !.t = "num", !.n = n]
JStr(s) == [NoValue EXCEPT !.t = "str", !.s = s]
JArr(a) == [NoValue EXCEPT !.t = "arr", !.a = a]
JObj(k, a) == [NoValue EXCEPT !.t = "obj", !.k = k, !.a = a]
JLit(name) == [NoValue EXCEPT !.t = name]

Parsed(v, end) == [ok |-> TRUE, val |-> v, pos |-> end, msg |-> ""]
Failed(msg, at) == [ok |-> FALSE, val |-> NoValue, pos |-> at, msg |-> msg]

DigitVal(c) == (CHOOSE d \in 1..10 : DigitChars[d] = c) - 1

RECURSIVE DigitRun(_, _)
DigitRun(t, i) == IF i <= Len(t) /\ t[i] \in Digits THEN DigitRun(t, i + 1) ELSE i

RECURSIVE DigitsValue(_, _, _)
DigitsValue(t, i, j) ==
    IF j < i THEN 0 ELSE 10 * DigitsValue(t, i, j - 1) + DigitVal(t[j])

\* NUMBER_RE at i: 0, or a digit 1-9 followed by digits
ScanNumber(t, i) ==
    IF t[i] = "0" THEN Parsed(JNum(0), i + 1)
    ELSE LET end == DigitRun(t, i) IN Parsed(JNum(DigitsValue(t, i, end - 1)), end)

\* py_scanstring(s, end, strict=True), i the position after the opening quote
ScanString(t, i) ==
    LET stops == {j \in i..Len(t) : t[j] = "\"" \/ t[j] \in ControlChars}
    IN  IF stops = {} THEN Failed("Unterminated string starting at", i - 1)
        ELSE LET j == Min(stops)
             IN  IF t[j] = "\"" THEN Parsed(JStr(SubSeq(t, i, j - 1)), j + 1)
                 ELSE Failed("Invalid control character at", j)

\* dict(pairs): a repeated key keeps its first place and takes the last value
PutPair(keys, vals, key, val) ==
    IF \E x \in 1..Len(keys) : keys[x] = key
    THEN [k |-> keys, a |-> [vals EXCEPT ![CHOOSE x \in 1..Len(keys) : keys[x] = key] = val]]
    ELSE [k |-> Append(keys, key), a |-> Append(vals, val)]

RECURSIVE ScanOnce(_, _)
RECURSIVE ArrayItems(_, _, _)
RECURSIVE ObjectPairs(_, _, _, _)

\* JSONArray's loop; i is the position of the next item
ArrayItems(t, i, acc) ==
    LET item == ScanOnce(t, i)
    IN  IF ~item.ok THEN item
        ELSE LET j == SkipWs(t, item.pos)
             IN  IF j > Len(t) THEN Failed("Expecting ',' delimiter", j)
                 ELSE IF t[j] = "]" THEN Parsed(JArr(Append(acc, item.val)), j + 1)
                 ELSE IF t[j] # "," THEN Failed("Expecting ',' delimiter", j)
                 ELSE ArrayItems(t, SkipWs(t, j + 1), Append(acc, item.val))

\* JSONObject's loop; i is the position after the opening quote of a key
ObjectPairs(t, i, keys, vals) ==
    LET key == ScanString(t, i)
    IN  IF ~key.ok THEN key
        ELSE LET c == SkipWs(t, key.pos)
             IN  IF c > Len(t) \/ t[c] # ":" THEN Failed("Expecting ':' delimiter", c)
                 ELSE LET val == ScanOnce(t, SkipWs(t, c + 1))
                      IN  IF ~val.ok THEN val
                          ELSE LET put == PutPair(keys, vals, key.val.s, val.val)
                                   j == SkipWs(t, val.pos)
                               IN  IF j > Len(t) THEN Failed("Expecting ',' delimiter", j)
                                   ELSE IF t[j] = "}" THEN Parsed(JObj(put.k, put.a), j + 1)
                                   ELSE IF t[j] # "," THEN Failed("Expecting ',' delimiter", j)
                                   ELSE LET q == SkipWs(t, j + 1)
                                        IN  IF q > Len(t) \/ t[q] # "\""
                                            THEN Failed("Expecting property name enclosed in double quotes", q)
                                            ELSE ObjectPairs(t, q + 1, put.k, put.a)

\* scanner.py_make_scanner's _scan_once
ScanOnce(t, i) ==
    IF i > Len(t) THEN Failed("Expecting value", i)
    ELSE IF t[i] = "\"" THEN ScanString(t, i + 1)
    ELSE IF t[i] = "{" THEN
        LET j == SkipWs(t, i + 1)
        IN  IF j <= Len(t) /\ t[j] = "}" THEN Parsed(JObj(<<>>, <<>>), j + 1)
            ELSE IF j <= Len(t) /\ t[j] = "\"" THEN ObjectPairs(t, j + 1, <<>>, <<>>)
            ELSE Failed("Expecting property name enclosed in double quotes", j)
    ELSE IF t[i] = "[" THEN
        LET j == SkipWs(t, i + 1)
        IN  IF j <= Len(t) /\ t[j] = "]" THEN Parsed(JArr(<<>>), j + 1)
            ELSE ArrayItems(t, j, <<>>)
    ELSE IF MatchAt(t, i, <<"n", "u", "l", "l">>) THEN Parsed(JLit("null"), i + 4)
    ELSE IF MatchAt(t, i, <<"t", "r", "u", "e">>) THEN Parsed(JLit("true"), i + 4)
    ELSE IF MatchAt(t, i, <<"f", "a", "l", "s", "e">>) THEN Parsed(JLit("false"), i + 5)
    ELSE IF t[i] \in Digits THEN ScanNumber(t, i)
    ELSE Failed("Expecting value", i)

\* json.loads(s): one value between optional whitespace, nothing after it
JsonLoads(t) ==
    LET r == ScanOnce(t, SkipWs(t, 1))
    IN  IF ~r.ok THEN r
        ELSE LET end == SkipWs(t, r.pos)
             IN  IF end # Len(t) + 1 THEN Failed("Extra data", end) ELSE r

\* re.sub(r',\s*([}\]])', r'\1', text) from position i on: matches are found
\* left to right and do not overlap; each is replaced by its closer
RECURSIVE ReSubFrom(_, _)
ReSubFrom(t, i) ==
    LET matches == {m \in i..Len(t) :
                       /\ t[m] = ","
                       /\ SkipWs(t, m + 1) <= Len(t)
                       /\ t[SkipWs(t, m + 1)] \in Closers}
    IN  IF matches = {} THEN SubSeq(t, i, Len(t))
        ELSE LET m == Min(matches)
                 j == SkipWs(t, m + 1)
             IN  SubSeq(t, i, m - 1) \o <<t[j]>> \o ReSubFrom(t, j + 1)

StripTrailingCommas(t) == ReSubFrom(t, 1)

NoJsonFound == "No JSON object or array found in the AI response."
FailedAfterCleaning == "Failed to parse JSON even after cleaning: "

NoResult == [kind |-> "none", exc |-> "", msg |-> <<>>, value |-> NoValue, parses |-> 0]
Return(v, parses) == [NoResult EXCEPT !.kind = "return", !.value = v, !.parses = parses]
Raise(exc, msg, parses) == [NoResult EXCEPT !.kind = "raise", !.exc = exc, !.msg = msg,
                                             !.parses = parses]

\* the text that parse_response_to_json hands to json.loads
ExtractJsonText(t) ==
    LET json_match == SearchFenced(t)
    IN  IF json_match.found THEN <<json_match.group1, json_match.group2>>
        ELSE SearchBare(t).group0

\* a variant that repairs and parses once more when the retry has failed
ParseResponseToJson_RepairAgain(t) ==
    IF ~SearchFenced(t).found /\ ~SearchBare(t).found
    THEN Raise("ValueError", <<NoJsonFound>>, 0)
    ELSE LET json_text == ExtractJsonText(t)
             first == JsonLoads(json_text)
         IN  IF first.ok THEN Return(first.val, 1)
             ELSE LET cleaned_json_text == StripTrailingCommas(json_text)
                      e_cleaned == JsonLoads(cleaned_json_text)
                  IN  IF e_cleaned.ok THEN Return(e_cleaned.val, 2)
                      ELSE LET again == JsonLoads(StripTrailingCommas(cleaned_json_text))
                           IN  IF again.ok THEN Return(again.val, 3)
                               ELSE Raise("ValueError",
                                          <<FailedAfterCleaning, again.msg, ": char ",
                                            ToString(again.pos - 1), "\nOriginal text: ">> \o t,
                                          3)

ParseResponseToJson(t) ==
    IF ~SearchFenced(t).found /\ ~SearchBare(t).found
    THEN Raise("ValueError", <<NoJsonFound>>, 0)
    ELSE LET json_text == ExtractJsonText(t)
             first == JsonLoads(json_text)
         IN  IF first.ok THEN Return(first.val, 1)
             ELSE LET cleaned_json_text == StripTrailingCommas(json_text)
                      e_cleaned == JsonLoads(cleaned_json_text)
                  IN  IF e_cleaned.ok THEN Return(e_cleaned.val, 2)
                      ELSE Raise("ValueError",
                                 <<FailedAfterCleaning, e_cleaned.msg, ": char ",
                                   ToString(e_cleaned.pos - 1), "\nOriginal text: ">> \o t,
                                 2)

(***************************************************************************)
(* The replies the normaliser is run on: every text over BodyAlphabet up   *)
(* to MaxBodyLen characters and the named examples, each bare, after a     *)
(* line of prose, inside a ```json fence, or both.                         *)
(***************************************************************************)
BodyAlphabet == {"{", "}", "[", "]", ",", "1", " "}
ShortBodies == UNION {[1..n -> BodyAlphabet] : n \in 0..MaxBodyLen}
ObjA1 == <<"{", "\"", "a", "\"", ":", " ", "1", "}">>
ObjA1Comma == <<"{", "\"", "a", "\"", ":", " ", "1", ",", "}">>
ObjNested == <<"{", "\"", "a", "\"", ":", " ", "{", "\"", "b", "\"", ":", " ", "1", "}", "}">>
\* valid JSON but for the Python literals None, True and False
ArrNone == <<"[", "N", "o", "n", "e", "]">>
ArrTrueFalse == <<"[", "T", "r", "u", "e", ",", " ", "F", "a", "l", "s", "e", "]">>
ExampleBodies == {ObjA1, ObjA1Comma, ObjNested, ArrNone, ArrTrueFalse,
                  <<"[", "1", ",", ",", "]">>, <<"h", "e", "l", "l", "o">>,
                  <<"[", "\"", "a", "\"", ",", " ", "1", "]">>}
Bodies == ShortBodies \cup ExampleBodies
Prose == <<"H", "e", "r", "e", " ", "y", "o", "u", " ", "g", "o", ":", "\n">>

Wrap(w) ==
    (IF w.prose THEN Prose ELSE <<>>)
        \o (IF w.fenced THEN FenceOpen \o <<"\n">> \o w.body \o <<"\n">> \o FenceClose
                        ELSE w.body)

Wrappings == [prose : BOOLEAN, fenced : BOOLEAN, body : Bodies]
NoWrapping == [prose |-> FALSE, fenced |-> FALSE, body |-> <<>>]

ParseResponse ==
    /\ result.kind = "none"
    /\ result' = ParseResponseToJson(response)
    /\ UNCHANGED <<ivars, wrapping, response, rvars, pvars, xvars>>

(***************************************************************************)
(* The repair step on its own: the texts it is applied to are all texts    *)
(* over RepairAlphabet up to MaxRepairLen characters.                      *)
(***************************************************************************)
RepairAlphabet == {",", " ", "}", "]", "1"}
RepairTexts == UNION {[1..n -> RepairAlphabet] : n \in 0..MaxRepairLen}

ApplyRepair ==
    /\ Len(repairs) \in 1..2
    /\ repairs' = Append(repairs, StripTrailingCommas(repairs[Len(repairs)]))
    /\ UNCHANGED <<ivars, nvars, pvars, xvars>>

(***************************************************************************)
(* The resume-extraction request: AIService.fill_profile_from_resume and   *)
(* the endpoint fill_profile_from_resume_ai.  The provider's reply is the  *)
(* JSON text of a profile whose experience list has up to MaxExperience    *)
(* entries, each holding some of the fields the Experience model requires. *)
(***************************************************************************)
ExperienceKey == <<"e", "x", "p", "e", "r", "i", "e", "n", "c", "e">>
PositionKey == <<"p", "o", "s", "i", "t", "i", "o", "n">>
CompanyKey == <<"c", "o", "m", "p", "a", "n", "y">>
StartDateKey == <<"s", "t", "a", "r", "t", "_", "d", "a", "t", "e">>
DescriptionKey == <<"d", "e", "s", "c", "r", "i", "p", "t", "i", "o", "n">>
\* the fields of Experience that have no default
RequiredExperienceKeys == <<PositionKey, CompanyKey, StartDateKey, DescriptionKey>>
Acme == <<"A", "c", "m", "e">>
SkillsKey == <<"s", "k", "i", "l", "l", "s">>
NameKey == <<"n", "a", "m", "e">>
LevelKey == <<"l", "e", "v", "e", "l">>
\* the fields of Skill, none of which has a default
RequiredSkillKeys == <<NameKey, LevelKey>>

Quoted(s) == <<"\"">> \o s \o <<"\"">>

\* the members "key": "Acme" of one entry, for the fields numbered from i on
RECURSIVE DumpMembers(_, _, _)
DumpMembers(fields, i, first) ==
    IF i > Len(RequiredExperienceKeys) THEN <<>>
    ELSE IF i \notin fields THEN DumpMembers(fields, i + 1, first)
    ELSE (IF first THEN <<>> ELSE <<",", " ">>)
            \o Quoted(RequiredExperienceKeys[i]) \o <<":", " ">> \o Quoted(Acme)
            \o DumpMembers(fields, i + 1, FALSE)

DumpEntry(fields) == <<"{">> \o DumpMembers(fields, 1, TRUE) \o <<"}">>

RECURSIVE DumpEntries(_, _)
DumpEntries(entries, i) ==
    IF i > Len(entries) THEN <<>>
    ELSE (IF i = 1 THEN <<>> ELSE <<",", " ">>) \o DumpEntry(entries[i])
            \o DumpEntries(entries, i + 1)

\* the members "key": "Acme" of one skill entry, for the fields numbered from i on
RECURSIVE DumpSkillMembers(_, _, _)
DumpSkillMembers(fields, i, first) ==
    IF i > Len(RequiredSkillKeys) THEN <<>>
    ELSE IF i \notin fields THEN DumpSkillMembers(fields, i + 1, first)
    ELSE (IF first THEN <<>> ELSE <<",", " ">>)
            \o Quoted(RequiredSkillKeys[i]) \o <<":", " ">> \o Quoted(Acme)
            \o DumpSkillMembers(fields, i + 1, FALSE)

RECURSIVE DumpSkills(_, _)
DumpSkills(entries, i) ==
    IF i > Len(entries) THEN <<>>
    ELSE (IF i = 1 THEN <<>> ELSE <<",", " ">>)
            \o <<"{">> \o DumpSkillMembers(entries[i], 1, TRUE) \o <<"}">>
            \o DumpSkills(entries, i + 1)

\* the reply text: {"experience": [...], "skills": [...]}, inside a ```json
\* fence or bare
ReplyText(r) ==
    LET json == <<"{">> \o Quoted(ExperienceKey) \o <<":", " ", "[">>
                    \o DumpEntries(r.experience, 1) \o <<"]", ",", " ">>
                    \o Quoted(SkillsKey) \o <<":", " ", "[">>
                    \o DumpSkills(r.skills, 1) \o <<"]", "}">>
    IN  IF r.fenced THEN FenceOpen \o <<"\n">> \o json \o <<"\n">> \o FenceClose ELSE json

EntryFields == SUBSET (1..Len(RequiredExperienceKeys))
SkillFields == SUBSET (1..Len(RequiredSkillKeys))
Resumes == [filename : BOOLEAN,
            fenced : BOOLEAN,
            experience : UNION {[1..n -> EntryFields] : n \in 0..MaxExperience},
            skills : UNION {[1..n -> SkillFields] : n \in 0..MaxSkills}]
NoResume == [filename |-> FALSE, fenced |-> FALSE, experience |-> <<>>, skills |-> <<>>]

NoProfile == [exists |-> FALSE, experience |-> <<>>, skills |-> <<>>]
EmptyProfile == [exists |-> TRUE, experience |-> <<>>, skills |-> <<>>]

\* self._call_ai_model(...) without await: the coroutine object, not its result
CallAiModel(text) == [type |-> "coroutine", text |-> text]

\* lines 483-489: a ValueError of the normaliser is wrapped in an Exception
WrapParseError(parsed_profile) ==
    IF parsed_profile.kind = "raise"
    THEN Raise("Exception",
               <<"Failed to parse AI response into JSON for profile: ">> \o parsed_profile.msg,
               parsed_profile.parses)
    ELSE parsed_profile

\* lines 477-489 of fill_profile_from_resume: re.search raises TypeError on an
\* argument that is not a string; only ValueError is caught and wrapped
FillProfileFromResume(text) ==
    LET ai_response_text == CallAiModel(text)
    IN  IF ai_response_text.type # "str"
        THEN Raise("TypeError", <<"expected string or bytes-like object">>, 0)
        ELSE WrapParseError(ParseResponseToJson(ai_response_text.text))

\* the methods class Database defines
DatabaseMethods == {"connect", "close", "_execute", "_fetch_one", "_fetch_all",
                    "_create_tables", "get_all_applications", "get_application_by_id",
                    "create_application", "update_application", "delete_application",
                    "get_application", "get_profile", "save_profile", "get_all_interviews",
                    "get_interview_by_id", "_check_overlap", "create_interview",
                    "update_interview", "delete_interview"}

HasKey(obj, key) == \E x \in 1..Len(obj.k) : obj.k[x] = key
Get(obj, key) == obj.a[CHOOSE x \in 1..Len(obj.k) : obj.k[x] = key]

\* Experience(**entry): position, company, start_date and description are
\* required strings
ValidExperience(entry) ==
    /\ entry.t = "obj"
    /\ \A i \in 1..Len(RequiredExperienceKeys) :
          HasKey(entry, RequiredExperienceKeys[i]) /\ Get(entry, RequiredExperienceKeys[i]).t = "str"

\* Skill(**entry): name and level are required strings
ValidSkill(entry) ==
    /\ entry.t = "obj"
    /\ \A i \in 1..Len(RequiredSkillKeys) :
          HasKey(entry, RequiredSkillKeys[i]) /\ Get(entry, RequiredSkillKeys[i]).t = "str"

\* UserProfile(**data), as far as the experience and skills lists go
ValidUserProfile(data) ==
    /\ data.t = "obj"
    /\ HasKey(data, ExperienceKey) =>
          /\ Get(data, ExperienceKey).t = "arr"
          /\ \A i \in 1..Len(Get(data, ExperienceKey).a) :
                ValidExperience(Get(data, ExperienceKey).a[i])
    /\ HasKey(data, SkillsKey) =>
          /\ Get(data, SkillsKey).t = "arr"
          /\ \A i \in 1..Len(Get(data, SkillsKey).a) :
                ValidSkill(Get(data, SkillsKey).a[i])

\* the stored form of a validated experience list: per entry its fields
StoredExperience(data, existing) ==
    IF HasKey(data, ExperienceKey)
    THEN [i \in 1..Len(Get(data, ExperienceKey).a) |-> 1..Len(RequiredExperienceKeys)]
    ELSE existing.experience

\* the stored form of a validated skills list: per entry its level
StoredSkills(data, existing) ==
    IF HasKey(data, SkillsKey)
    THEN [i \in 1..Len(Get(data, SkillsKey).a) |-> Get(Get(data, SkillsKey).a[i], LevelKey).s]
    ELSE existing.skills

\* lines 519-539 of the endpoint, entered with what fill_profile_from_resume gave
SaveExtractedProfile(extracted_profile_data) ==
    IF extracted_profile_data.kind = "raise"
    THEN /\ http' = 500
         /\ UNCHANGED profile
    ELSE IF "get_user_profile" \notin DatabaseMethods
    THEN /\ http' = 500
         /\ UNCHANGED profile
    ELSE IF ~ValidUserProfile(extracted_profile_data.value)
    THEN /\ http' = 500
         /\ UNCHANGED profile
    ELSE IF "save_user_profile" \notin DatabaseMethods
    THEN /\ http' = 500
         /\ UNCHANGED profile
    ELSE /\ http' = 200
         /\ profile' = [exists |-> TRUE,
                        experience |-> StoredExperience(extracted_profile_data.value, profile),
                        skills |-> StoredSkills(extracted_profile_data.value, profile)]

\* the endpoint: any exception inside the try block becomes an HTTP 500
FillProfileFromResumeAi ==
    /\ http = 0
    /\ IF ~resume.filename
       THEN /\ http' = 400
            /\ UNCHANGED profile
       ELSE SaveExtractedProfile(FillProfileFromResume(ReplyText(resume)))
    /\ UNCHANGED <<ivars, nvars, rvars, resume, xvars>>

(***************************************************************************)
(* The user_profile table: Database.save_profile and Database.get_profile. *)
(* A Python value is a record as for json.loads: None is the "null" value, *)
(* a str the "str" value of its characters, a list an "arr", a dict an     *)
(* "obj".  The strings of the model hold no character that json.dumps      *)
(* would escape.                                                           *)
(***************************************************************************)
PyNone == JLit("null")
\* marks a key that the dict profile_data does not have
Absent == JLit("absent")

\* the columns that UserProfile declares as str
TextColumns == {"full_name", "email", "phone", "location", "summary"}
\* the JSONB columns
ListColumns == {"education", "experience", "skills", "languages", "certifications"}
\* the columns that UserProfile declares as Optional[str]
OptionalColumns == {"linkedin_url", "github_url", "portfolio_url", "cv_profile_file"}
Columns == TextColumns \cup ListColumns \cup OptionalColumns

\* profile_data.get(key) and profile_data.get(key, default)
DictGet(d, key) == IF d[key] = Absent THEN PyNone ELSE d[key]
DictGetOr(d, key, default) == IF d[key] = Absent THEN default ELSE d[key]

\* str(n) of a natural number
RECURSIVE NumberText(_)
NumberText(n) ==
    IF n < 10 THEN <<DigitChars[n + 1]>>
    ELSE NumberText(n \div 10) \o <<DigitChars[(n % 10) + 1]>>

\* json.dumps(value) with the default separators ', ' and ': '
RECURSIVE JsonDumps(_)
RECURSIVE DumpItems(_, _)
RECURSIVE DumpPairs(_, _, _)

DumpItems(a, i) ==
    IF i > Len(a) THEN <<>>
    ELSE (IF i = 1 THEN <<>> ELSE <<",", " ">>) \o JsonDumps(a[i]) \o DumpItems(a, i + 1)

DumpPairs(k, a, i) ==
    IF i > Len(k) THEN <<>>
    ELSE (IF i = 1 THEN <<>> ELSE <<",", " ">>)
            \o Quoted(k[i]) \o <<":", " ">> \o JsonDumps(a[i]) \o DumpPairs(k, a, i + 1)

JsonDumps(v) ==
    IF v.t = "num" THEN NumberText(v.n)
    ELSE IF v.t = "str" THEN Quoted(v.s)
    ELSE IF v.t = "arr" THEN <<"[">> \o DumpItems(v.a, 1) \o <<"]">>
    ELSE IF v.t = "obj" THEN <<"{">> \o DumpPairs(v.k, v.a, 1) \o <<"}">>
    ELSE IF v.t = "true" THEN <<"t", "r", "u", "e">>
    ELSE IF v.t = "false" THEN <<"f", "a", "l", "s", "e">>
    ELSE <<"n", "u", "l", "l">>

\* the characters of the model's object keys in ascending byte order
ByteOrder == <<"A", "B", "_", "a", "b", "c", "d", "e", "f", "g", "h", "i", "j", "k", "l",
               "m", "n", "o", "p", "q", "r", "s", "t", "u", "v", "w", "x", "y", "z">>
ByteOf(c) == CHOOSE i \in 1..Len(ByteOrder) : ByteOrder[i] = c

\* the order in which a JSONB object keeps its keys: shorter first, then bytewise
KeyBefore(a, b) ==
    \/ Len(a) < Len(b)
    \/ /\ Len(a) = Len(b)
       /\ \E i \in 1..Len(a) :
             /\ \A j \in 1..(i - 1) : a[j] = b[j]
             /\ ByteOf(a[i]) < ByteOf(b[i])

\* the value a JSONB column holds for a JSON value: object keys in JSONB order
RECURSIVE JsonbNormalise(_)
JsonbNormalise(v) ==
    IF v.t = "arr" THEN JArr([i \in 1..Len(v.a) |-> JsonbNormalise(v.a[i])])
    ELSE IF v.t = "obj" THEN
        LET n == Len(v.k)
            order == CHOOSE f \in [1..n -> 1..n] :
                        \A i \in 1..n, j \in 1..n : i < j => KeyBefore(v.k[f[i]], v.k[f[j]])
        IN  JObj([i \in 1..n |-> v.k[order[i]]],
                 [i \in 1..n |-> JsonbNormalise(v.a[order[i]])])
    ELSE v

\* a JSON text written to a JSONB column and read back as text (jsonb_in, jsonb_out)
JsonbText(text) == JsonDumps(JsonbNormalise(JsonLoads(text).val))

\* lines 288-295: the list values of profile_data replaced by their JSON text
SerialiseLists(profile_data) ==
    [c \in Columns |->
        IF c \in ListColumns THEN JStr(JsonDumps(DictGetOr(profile_data, c, JArr(<<>>))))
        ELSE profile_data[c]]

\* the parameters $1..$14 of the UPDATE and of the INSERT, as the columns keep them
ColumnValues(profile_data) ==
    [c \in Columns |->
        IF c \in ListColumns THEN JStr(JsonbText(DictGet(profile_data, c).s))
        ELSE DictGet(profile_data, c)]

\* a variant that leaves a column as it was when profile_data lacks the key
ColumnValues_Merge(serialised, profile_data, old) ==
    [c \in Columns |->
        IF profile_data[c] = Absent THEN old[c] ELSE ColumnValues(serialised)[c]]

\* the columns of the row after UPDATE ... SET every column
UpdatedColumns(serialised, profile_data, old) == ColumnValues(serialised)

\* lines 277-281 and 365-369: the JSONB columns parsed back to Python lists
Truthy(v) == v.t # "null" /\ ~(v.t = "str" /\ v.s = <<>>)
DeserialiseLists(record) ==
    [c \in Columns |->
        IF c \in ListColumns
        THEN (IF Truthy(record[c]) THEN JsonLoads(record[c].s).val ELSE JArr(<<>>))
        ELSE record[c]]

DegreeKey == <<"d", "e", "g", "r", "e", "e">>
InstitutionKey == <<"i", "n", "s", "t", "i", "t", "u", "t", "i", "o", "n">>
GraduationYearKey == <<"g", "r", "a", "d", "u", "a", "t", "i", "o", "n", "_", "y", "e", "a", "r">>

\* Education(**entry): degree and institution are required strings,
\* graduation_year a required int (or a string of digits)
ValidEducation(entry) ==
    /\ entry.t = "obj"
    /\ HasKey(entry, DegreeKey) /\ Get(entry, DegreeKey).t = "str"
    /\ HasKey(entry, InstitutionKey) /\ Get(entry, InstitutionKey).t = "str"
    /\ HasKey(entry, GraduationYearKey)
    /\ \/ Get(entry, GraduationYearKey).t = "num"
       \/ /\ Get(entry, GraduationYearKey).t = "str"
          /\ Get(entry, GraduationYearKey).s # <<>>
          /\ \A i \in 1..Len(Get(entry, GraduationYearKey).s) :
                Get(entry, GraduationYearKey).s[i] \in Digits

\* UserProfile(**record) accepts the record
ValidProfileRecord(record) ==
    /\ \A c \in TextColumns : record[c].t = "str"
    /\ \A c \in OptionalColumns : record[c].t \in {"str", "null"}
    /\ \A c \in ListColumns : record[c].t = "arr"
    /\ \A i \in 1..Len(record["education"].a) : ValidEducation(record["education"].a[i])
    /\ \A i \in 1..Len(record["experience"].a) : ValidExperience(record["experience"].a[i])
    /\ \A i \in 1..Len(record["skills"].a) : ValidSkill(record["skills"].a[i])
    /\ \A i \in 1..Len(record["languages"].a) : record["languages"].a[i].t = "str"
    /\ \A i \in 1..Len(record["certifications"].a) : record["certifications"].a[i].t = "str"

\* SELECT id FROM user_profile LIMIT 1: the id of some row, 0 when there is none
SelectLimit1(rows) == IF rows = {} THEN {0} ELSE {r.id : r \in rows}

NoColumns == [c \in Columns |-> PyNone]
NoDict == [c \in Columns |-> Absent]
\* a call: its argument, the columns of the row an UPDATE replaced, how the call
\* ended and the record it built; before any call there is none of them
NoProfileCall == [op |-> "none", profile_data |-> <<>>, replaced |-> <<>>,
                  kind |-> "none", data |-> <<>>]
IdleSaver == [pc |-> "idle", profile_data |-> <<>>, existing |-> 0]

\* the columns of the row with the given id (no row is ever deleted from the table)
RowData(rows, id) == IF id = 0 THEN NoColumns ELSE (CHOOSE r \in rows : r.id = id).data

\* the columns the UPDATE (existing # 0) or the INSERT (existing = 0) writes
WrittenColumns(rows, existing, profile_data) ==
    IF existing # 0
    THEN UpdatedColumns(SerialiseLists(profile_data), profile_data, RowData(rows, existing))
    ELSE ColumnValues(SerialiseLists(profile_data))

\* the rows after the UPDATE or the INSERT
WriteProfile(rows, seq, existing, profile_data) ==
    IF existing # 0
    THEN {IF r.id = existing
          THEN [r EXCEPT !.data = WrittenColumns(rows, existing, profile_data)]
          ELSE r : r \in rows}
    ELSE rows \cup {[id |-> seq, data |-> WrittenColumns(rows, existing, profile_data)]}

\* lines 363-371: the record RETURNING * gave, deserialised and validated
SaveResult(profile_data, replaced, written) ==
    [op |-> "save", profile_data |-> profile_data, replaced |-> replaced,
     kind |-> IF ValidProfileRecord(DeserialiseLists(written)) THEN "return"
              ELSE "ValidationError",
     data |-> DeserialiseLists(written)]

\* Database.save_profile, run to completion
SaveProfile(profile_data) ==
    /\ \E existing \in SelectLimit1(user_profile) :
          /\ user_profile' = WriteProfile(user_profile, profileSeq, existing, profile_data)
          /\ profileSeq' = IF existing = 0 THEN profileSeq + 1 ELSE profileSeq
          /\ profileCall' = SaveResult(profile_data, RowData(user_profile, existing),
                                       WrittenColumns(user_profile, existing, profile_data))
    /\ UNCHANGED <<savers, ivars, nvars, rvars, pvars, avars, hvars, cvars>>

\* Database.get_profile: SELECT * FROM user_profile LIMIT 1 gives some row
GetProfile ==
    /\ IF user_profile = {}
       THEN profileCall' = [NoProfileCall EXCEPT !.op = "get", !.kind = "None"]
       ELSE \E r \in user_profile :
               LET record == DeserialiseLists(r.data)
               IN  profileCall' =
                       [op |-> "get", profile_data |-> NoDict, replaced |-> NoColumns,
                        kind |-> IF ValidProfileRecord(record) THEN "return"
                                 ELSE "ValidationError",
                        data |-> record]
    /\ UNCHANGED <<user_profile, profileSeq, savers, ivars, nvars, rvars, pvars, avars, hvars,
                   cvars>>

(***************************************************************************)
(* Concurrent save_profile calls.  The SELECT of line 297 and the UPDATE   *)
(* or INSERT that follows run on separately acquired connections, outside  *)
(* any transaction; table user_profile has no constraint besides its key.  *)
(***************************************************************************)
ConcSelectProfile(w, profile_data) ==
    /\ savers[w].pc = "idle"
    /\ profileSeq + Cardinality({v \in Writers : savers[v].pc = "write" /\ savers[v].existing = 0})
          <= MaxProfileId
    /\ \E existing \in SelectLimit1(user_profile) :
          savers' = [savers EXCEPT ![w] =
                        [pc |-> "write", profile_data |-> profile_data, existing |-> existing]]
    /\ UNCHANGED <<user_profile, profileSeq, profileCall, ivars, nvars, rvars, pvars, avars,
                   hvars, cvars>>

ConcWriteProfile(w) ==
    /\ savers[w].pc = "write"
    /\ user_profile' = WriteProfile(user_profile, profileSeq, savers[w].existing,
                                    savers[w].profile_data)
    /\ profileSeq' = IF savers[w].existing = 0 THEN profileSeq + 1 ELSE profileSeq
    /\ profileCall' = SaveResult(savers[w].profile_data,
                                 RowData(user_profile, savers[w].existing),
                                 WrittenColumns(user_profile, savers[w].existing,
                                                savers[w].profile_data))
    /\ savers' = [savers EXCEPT ![w] = IdleSaver]
    /\ UNCHANGED <<ivars, nvars, rvars, pvars, avars, hvars, cvars>>

(***************************************************************************)
(* The dicts save_profile is called with: full_name, skills, languages and *)
(* linkedin_url are each absent or one of a few values; email, phone,      *)
(* location and summary are empty strings; the other keys are absent.      *)
(***************************************************************************)
Ann == <<"A", "n", "n">>
Bob == <<"B", "o", "b">>
SkillNameLevel == JObj(<<NameKey, LevelKey>>, <<JStr(Acme), JStr(Ann)>>)
SkillLevelName == JObj(<<LevelKey, NameKey>>, <<JStr(Bob), JStr(Acme)>>)
ProfileDicts ==
    {[c \in Columns |->
        IF c = "full_name" THEN n
        ELSE IF c = "skills" THEN s
        ELSE IF c = "languages" THEN l
        ELSE IF c = "linkedin_url" THEN u
        ELSE IF c \in TextColumns THEN JStr(<<>>)
        ELSE Absent] :
        n \in {Absent, JStr(Ann), JStr(Bob)},
        s \in {Absent, JArr(<<SkillLevelName, SkillNameLevel>>)},
        l \in {Absent, JArr(<<JStr(Ann), JStr(Bob)>>)},
        u \in {Absent, JStr(Bob)}}
ConcProfileDicts ==
    {d \in ProfileDicts :
        d["skills"] = Absent /\ d["languages"] = Absent}

InitProfileTable ==
    /\ user_profile = {}
    /\ profileSeq = 1
    /\ savers = [w \in Writers |-> IdleSaver]
    /\ profileCall = NoProfileCall

(***************************************************************************)
(* The applications table, the upload store and the application endpoints  *)
(* of main.py.  A cv_file path is the number of the file in the upload     *)
(* store, NoFile for None; every upload gets a fresh name.                 *)
(***************************************************************************)
Dates == 0..MaxDate
\* an application_date string that strptime(..., "%Y-%m-%d") refuses
MalformedDate == -1
AppIds == 1..MaxAppId
\* an id string that int() refuses
NotAnInteger == -1
Files == 1..MaxFiles
NoFile == 0

NoRequest == [op |-> "none", id |-> 0, application_date |-> 0, cv_file |-> FALSE]

\* SELECT ... ORDER BY key: the rows in an order the sort allows (rows with
\* equal keys come in any order)
OrderBy(rows, column, descending) ==
    {f \in [1..Cardinality(rows) -> rows] :
        /\ \A i \in 1..Cardinality(rows), j \in 1..Cardinality(rows) :
              i < j => /\ f[i] # f[j]
                       /\ IF descending THEN f[i][column] >= f[j][column]
                                        ELSE f[i][column] <= f[j][column]}

\* the ORDER BY columns of the two list queries
ApplicationDate == "application_date"
StartDatetime == "start_datetime"

\* Database.get_application: the rows with the id, none when int(app_id) fails
ApplicationRows(rows, app_id) ==
    IF app_id = NotAnInteger THEN {} ELSE {r \in rows : r.id = app_id}

\* Database.create_application, called directly
CreateApplication(application_date, cv_file) ==
    /\ appSeq <= MaxAppId
    /\ applications' = applications \cup
            {[id |-> appSeq, application_date |-> application_date, cv_file |-> cv_file]}
    /\ appSeq' = appSeq + 1
    /\ request' = [NoRequest EXCEPT !.op = "create_application",
                                    !.application_date = application_date]
    /\ status' = 0
    /\ listing' = <<>>
    /\ UNCHANGED <<uploads, fileSeq, ivars, nvars, rvars, pvars, uvars, cvars>>

\* POST /api/applications: the upload is written first, the date parsed next;
\* db.add_application is then looked up on class Database
AddApplication(application_date, cv_file) ==
    /\ cv_file => fileSeq <= MaxFiles
    /\ request' = [NoRequest EXCEPT !.op = "add_application",
                                    !.application_date = application_date,
                                    !.cv_file = cv_file]
    /\ uploads' = IF cv_file THEN uploads \cup {fileSeq} ELSE uploads
    /\ fileSeq' = IF cv_file THEN fileSeq + 1 ELSE fileSeq
    /\ IF application_date = MalformedDate
       THEN /\ status' = 400
            /\ UNCHANGED <<applications, appSeq>>
       ELSE IF "add_application" \notin DatabaseMethods
       THEN /\ status' = 500
            /\ UNCHANGED <<applications, appSeq>>
       ELSE /\ status' = 200
            /\ applications' = applications \cup
                    {[id |-> appSeq, application_date |-> application_date,
                      cv_file |-> IF cv_file THEN fileSeq ELSE NoFile]}
            /\ appSeq' = appSeq + 1
    /\ listing' = <<>>
    /\ UNCHANGED <<ivars, nvars, rvars, pvars, uvars, cvars>>

\* GET /api/applications
GetApplications ==
    /\ request' = [NoRequest EXCEPT !.op = "get_applications"]
    /\ listing' \in OrderBy(applications, ApplicationDate, TRUE)
    /\ status' = 200
    /\ UNCHANGED <<applications, appSeq, uploads, fileSeq, ivars, nvars, rvars, pvars, uvars,
                   cvars>>

\* GET /api/applications/{application_id}
GetApplication(application_id) ==
    /\ request' = [NoRequest EXCEPT !.op = "get_application", !.id = application_id]
    /\ status' = IF ApplicationRows(applications, application_id) = {} THEN 404 ELSE 200
    /\ listing' = <<>>
    /\ UNCHANGED <<applications, appSeq, uploads, fileSeq, ivars, nvars, rvars, pvars, uvars,
                   cvars>>

\* PUT /api/applications/{application_id}: with a new upload the old file is
\* removed and the new one written before the date is parsed
UpdateApplication(application_id, application_date, cv_file) ==
    /\ cv_file => fileSeq <= MaxFiles
    /\ request' = [NoRequest EXCEPT !.op = "update_application", !.id = application_id,
                                    !.application_date = application_date,
                                    !.cv_file = cv_file]
    /\ IF ApplicationRows(applications, application_id) = {}
       THEN /\ status' = 404
            /\ UNCHANGED <<applications, uploads, fileSeq>>
       ELSE LET existing_application ==
                    CHOOSE r \in ApplicationRows(applications, application_id) : TRUE
                kept == IF cv_file THEN uploads \ {existing_application.cv_file} ELSE uploads
                cv_file_path == IF cv_file THEN fileSeq ELSE existing_application.cv_file
            IN  /\ uploads' = IF cv_file THEN kept \cup {fileSeq} ELSE kept
                /\ fileSeq' = IF cv_file THEN fileSeq + 1 ELSE fileSeq
                /\ IF application_date = MalformedDate
                   THEN /\ status' = 400
                        /\ UNCHANGED applications
                   ELSE /\ status' = 200
                        /\ applications' =
                              {IF r.id = application_id
                               THEN [r EXCEPT !.application_date = application_date,
                                              !.cv_file = cv_file_path]
                               ELSE r : r \in applications}
    /\ listing' = <<>>
    /\ UNCHANGED <<appSeq, ivars, nvars, rvars, pvars, uvars, cvars>>

\* DELETE /api/applications/{application_id}: the file is removed first (an
\* exception of os.remove is printed and passed over), the row deleted next;
\* the DELETE may fail (the statement raises, or reports no deleted row)
DeleteApplication(application_id, remove_raises, delete_fails) ==
    /\ request' = [NoRequest EXCEPT !.op = "delete_application", !.id = application_id]
    /\ IF ApplicationRows(applications, application_id) = {}
       THEN /\ status' = 404
            /\ UNCHANGED <<applications, uploads>>
       ELSE LET application_to_delete ==
                    CHOOSE r \in ApplicationRows(applications, application_id) : TRUE
            IN  /\ uploads' = IF remove_raises THEN uploads
                              ELSE uploads \ {application_to_delete.cv_file}
                /\ IF delete_fails
                   THEN /\ status' = 500
                        /\ UNCHANGED applications
                   ELSE /\ status' = 200
                        /\ applications' = applications \ {application_to_delete}
    /\ listing' = <<>>
    /\ UNCHANGED <<appSeq, fileSeq, ivars, nvars, rvars, pvars, uvars, cvars>>

(***************************************************************************)
(* The interview endpoints of main.py and Database.get_all_interviews.     *)
(***************************************************************************)
\* POST /api/interviews: db.add_interview is looked up on class Database; the
\* AttributeError is no ValueError
AddInterview(s, e) ==
    /\ nextId <= MaxId
    /\ lastCall' = [op |-> "POST /api/interviews", id |-> 0,
                    start_datetime |-> s, end_datetime |-> e]
    /\ IF "add_interview" \notin DatabaseMethods
       THEN /\ outcome' = "AttributeError"
            /\ status' = 500
            /\ UNCHANGED <<interviews, nextId>>
       ELSE IF CheckOverlap(interviews, s, e, 0)
       THEN /\ outcome' = "ValueError"
            /\ status' = 400
            /\ UNCHANGED <<interviews, nextId>>
       ELSE /\ outcome' = "ok"
            /\ status' = 200
            /\ interviews' = InsertRow(interviews, nextId, s, e)
            /\ nextId' = nextId + 1
    /\ listing' = <<>>
    /\ UNCHANGED <<writers, request, nvars, rvars, pvars, uvars, avars, cvars>>

\* GET /api/interviews/{interview_id}: db.get_interview is looked up on class Database
GetInterview(interview_id) ==
    /\ lastCall' = [op |-> "GET /api/interviews/{interview_id}", id |-> interview_id,
                    start_datetime |-> 0, end_datetime |-> 0]
    /\ IF "get_interview" \notin DatabaseMethods
       THEN outcome' = "AttributeError" /\ status' = 500
       ELSE IF \E r \in interviews : r.id = interview_id
       THEN outcome' = "ok" /\ status' = 200
       ELSE outcome' = "None" /\ status' = 404
    /\ listing' = <<>>
    /\ UNCHANGED <<interviews, nextId, writers, request, nvars, rvars, pvars, uvars,
                   avars, cvars>>

\* PUT /api/interviews/{interview_id}: a ValueError (of int(), or the overlap)
\* becomes a 400; a None result a 500
PutInterview(interview_id, s, e) ==
    /\ lastCall' = [op |-> "PUT /api/interviews/{interview_id}", id |-> interview_id,
                    start_datetime |-> s, end_datetime |-> e]
    /\ IF interview_id = NotAnInteger \/ CheckOverlap(interviews, s, e, interview_id)
       THEN /\ outcome' = "ValueError"
            /\ status' = 400
            /\ UNCHANGED interviews
       ELSE /\ interviews' = UpdateRow(interviews, interview_id, s, e)
            /\ IF \E r \in interviews : r.id = interview_id
               THEN outcome' = "ok" /\ status' = 200
               ELSE outcome' = "None" /\ status' = 500
    /\ listing' = <<>>
    /\ UNCHANGED <<nextId, writers, request, nvars, rvars, pvars, uvars, avars, cvars>>

\* DELETE /api/interviews/{interview_id}: db.delete_interview returns True
\* whether or not a row was deleted; a ValueError of int() is not caught
RemoveInterview(interview_id) ==
    /\ lastCall' = [op |-> "DELETE /api/interviews/{interview_id}", id |-> interview_id,
                    start_datetime |-> 0, end_datetime |-> 0]
    /\ IF interview_id = NotAnInteger
       THEN /\ outcome' = "ValueError"
            /\ status' = 500
            /\ UNCHANGED interviews
       ELSE /\ interviews' = DeleteRow(interviews, interview_id)
            /\ outcome' = "ok"
            /\ status' = 200
    /\ listing' = <<>>
    /\ UNCHANGED <<nextId, writers, request, nvars, rvars, pvars, uvars, avars, cvars>>

\* Database.get_all_interviews() without year and month: ORDER BY start_datetime ASC
GetAllInterviews ==
    /\ lastCall' = [op |-> "get_all_interviews", id |-> 0,
                    start_datetime |-> 0, end_datetime |-> 0]
    /\ outcome' = "ok"
    /\ listing' \in OrderBy(interviews, StartDatetime, FALSE)
    /\ UNCHANGED <<interviews, nextId, writers, request, status, nvars, rvars, pvars, uvars,
                   avars, cvars>>

(***************************************************************************)
(* The AI service: one request of an /api/ai endpoint, or one direct call  *)
(* of an AIService method, and the requests it sends to the provider.      *)
(***************************************************************************)
\* the values of the AIProvider enumeration, which the endpoints accept
AIProviders == {"openai", "gemini", "claude"}

\* the AIService methods take ai_provider as a plain str
ProviderArguments == AIProviders \cup {"anthropic"}

\* what a provider answers to a completion request
Replies == {"text", "tool_calls"}

\* the ways a completion request fails: APIStatusError 401 and 429,
\* APIConnectionError
ProviderErrors == {"auth", "rate_limit", "network"}

\* the function a tool call of the reply names
ToolNames == {"google_search", "browsing", "other"}

\* names the tool branches use that ai_services.py neither imports nor defines
UndefinedNames == {"google_search", "browsing"}

NoAiCall ==
    [method |-> "none", entry |-> "none", provider |-> "none", tools |-> FALSE,
     awaited |-> FALSE, pc |-> "idle", sent |-> <<>>, value |-> "none"]

\* a service method builds its prompt and calls _call_ai_model: awaited, the
\* dispatch runs; not awaited, the coroutine object is what the method returns
StartAiCall(method, entry, ai_provider, tools, awaited) ==
    /\ ai.pc \in {"idle", "done"}
    /\ ai' = [method |-> method, entry |-> entry, provider |-> ai_provider,
              tools |-> tools, awaited |-> awaited,
              pc |-> IF awaited THEN "call_ai_model" ELSE "returned",
              sent |-> <<>>,
              value |-> IF awaited THEN "none" ELSE "coroutine"]
    /\ status' = 0
    /\ UNCHANGED <<request, listing, ivars, nvars, rvars, pvars, uvars, avars, kvars>>

EstimateJobChanceAi(ai_provider) ==
    StartAiCall("estimate_job_chance", "endpoint", ai_provider, FALSE, TRUE)

ResearchCompanyWebsiteAi(ai_provider) ==
    StartAiCall("research_company_website", "endpoint", ai_provider, TRUE, TRUE)

GenerateAboutMeAnswerAi(ai_provider) ==
    StartAiCall("generate_about_me_answer", "endpoint", ai_provider, FALSE, FALSE)

EstimateJobChance(ai_provider) ==
    StartAiCall("estimate_job_chance", "service", ai_provider, FALSE, TRUE)

ResearchCompanyWebsite(ai_provider) ==
    StartAiCall("research_company_website", "service", ai_provider, TRUE, TRUE)

\* _call_ai_model: the gemini branch returns the coroutine of _call_gemini_pro
\* without awaiting it, the openai and anthropic branches await their call,
\* any other value raises ValueError
CallAiModelDispatch ==
    /\ ai.pc = "call_ai_model"
    /\ ai' = IF ai.provider = "gemini"
                 THEN [ai EXCEPT !.pc = "returned", !.value = "coroutine"]
             ELSE IF ai.provider = "openai"
                 THEN [ai EXCEPT !.pc = "call_openai"]
             ELSE IF ai.provider = "anthropic"
                 THEN [ai EXCEPT !.pc = "call_anthropic"]
             ELSE [ai EXCEPT !.pc = "raised", !.value = "Unsupported AI provider."]
    /\ UNCHANGED <<status, request, listing, ivars, nvars, rvars, pvars, uvars, avars, kvars>>

OnProviderError_Retry(pc) == pc

\* the except clauses wrap the error of a completion request and raise it
OnProviderError(pc) == "raised"

\* the first completion request and what the call does with its answer
FirstRequest(pc, second, reply, tool) ==
    /\ ai.pc = pc
    /\ reply = "tool_calls" => ai.tools
    /\ ai' = IF reply \in ProviderErrors
                 THEN [ai EXCEPT !.sent = Append(@, reply),
                                 !.pc = OnProviderError(pc), !.value = "Exception"]
             ELSE IF reply = "text"
                 THEN [ai EXCEPT !.sent = Append(@, reply),
                                 !.pc = "returned", !.value = "text"]
             ELSE IF tool \in UndefinedNames
                 THEN [ai EXCEPT !.sent = Append(@, reply),
                                 !.pc = "raised", !.value = "Exception"]
             ELSE [ai EXCEPT !.sent = Append(@, reply), !.pc = second]
    /\ UNCHANGED <<status, request, listing, ivars, nvars, rvars, pvars, uvars, avars, kvars>>

\* the second completion request, sent with the tool outputs
SecondRequest(pc, reply) ==
    /\ ai.pc = pc
    /\ reply # "tool_calls"
    /\ ai' = IF reply \in ProviderErrors
                 THEN [ai EXCEPT !.sent = Append(@, reply),
                                 !.pc = OnProviderError(pc), !.value = "Exception"]
                 ELSE [ai EXCEPT !.sent = Append(@, reply),
                                 !.pc = "returned", !.value = "text"]
    /\ UNCHANGED <<status, request, listing, ivars, nvars, rvars, pvars, uvars, avars, kvars>>

CallOpenai(reply, tool) == FirstRequest("call_openai", "openai_tools", reply, tool)

CallOpenaiWithToolOutputs(reply) == SecondRequest("openai_tools", reply)

CallAnthropic(reply, tool) == FirstRequest("call_anthropic", "anthropic_tools", reply, tool)

CallAnthropicWithToolOutputs(reply) == SecondRequest("anthropic_tools", reply)

\* the endpoint answers {"result": result}, which only a text can be encoded
\* into, and turns every exception into HTTPException 500; a direct caller of
\* the service method gets the value or the exception itself
AiRespond ==
    /\ ai.pc \in {"returned", "raised"}
    /\ ai' = [ai EXCEPT !.pc = "done"]
    /\ status' = IF ai.entry # "endpoint" THEN 0
                 ELSE IF ai.pc = "returned" /\ ai.value = "text" THEN 200
                 ELSE 500
    /\ UNCHANGED <<request, listing, ivars, nvars, rvars, pvars, uvars, avars, kvars>>

NextAi ==
    \/ \E ai_provider \in AIProviders : EstimateJobChanceAi(ai_provider)
    \/ \E ai_provider \in AIProviders : ResearchCompanyWebsiteAi(ai_provider)
    \/ \E ai_provider \in AIProviders : GenerateAboutMeAnswerAi(ai_provider)
    \/ \E ai_provider \in ProviderArguments : EstimateJobChance(ai_provider)
    \/ \E ai_provider \in ProviderArguments : ResearchCompanyWebsite(ai_provider)
    \/ CallAiModelDispatch
    \/ \E reply \in Replies \cup ProviderErrors, tool \in ToolNames : CallOpenai(reply, tool)
    \/ \E reply \in Replies \cup ProviderErrors : CallOpenaiWithToolOutputs(reply)
    \/ \E reply \in Replies \cup ProviderErrors, tool \in ToolNames : CallAnthropic(reply, tool)
    \/ \E reply \in Replies \cup ProviderErrors : CallAnthropicWithToolOutputs(reply)
    \/ AiRespond

(***************************************************************************)
(* The provider clients.  AIService keeps one client handle per provider   *)
(* (openai_client, anthropic_client); google.generativeai is configured    *)
(* through a module-wide key.  Requests run as coroutines on one event     *)
(* loop: another request runs only while a coroutine waits at an await.    *)
(***************************************************************************)
ApiKeys == {"sk-a", "sk-b"}
Callers == {1, 2}
\* the providers AIService keeps a client handle for
HandleProviders == {"openai", "anthropic"}

\* None
NoClient == [id |-> 0, api_key |-> "none"]
IdleCall == [pc |-> "idle", provider |-> "none", api_key |-> "none", client |-> NoClient,
             sent |-> <<>>]

\* a variant that constructs a handle on every call
GetClient_AlwaysNew(stored, api_key, fresh) == [id |-> fresh, api_key |-> api_key]

\* a variant that keeps the stored handle whatever key the call brings
GetClient_KeyIgnored(stored, api_key, fresh) ==
    IF stored = NoClient THEN [id |-> fresh, api_key |-> api_key] ELSE stored

\* _get_openai_client / _get_anthropic_client: a new handle when none is
\* stored or the stored one has another key, else the stored handle
GetClient(stored, api_key, fresh) ==
    IF stored = NoClient \/ stored.api_key # api_key
    THEN [id |-> fresh, api_key |-> api_key]
    ELSE stored

\* _call_openai / _call_anthropic up to the first await: the handle is fetched
\* into the local variable client and the messages are built
CallProvider(c, provider, api_key) ==
    /\ calls[c].pc \in {"idle", "done"}
    /\ handleSeq < MaxHandles
    /\ LET client == GetClient(clients[provider], api_key, handleSeq + 1)
       IN  /\ clients' = [clients EXCEPT ![provider] = client]
           /\ handleSeq' = IF client.id = handleSeq + 1 THEN handleSeq + 1 ELSE handleSeq
           /\ calls' = [calls EXCEPT ![c] =
                  [pc |-> "first_request", provider |-> provider, api_key |-> api_key,
                   client |-> client, sent |-> <<>>]]
    /\ UNCHANGED <<genaiKey, ai, ivars, nvars, rvars, pvars, uvars, avars, hvars>>

\* the first completion request, sent through the local client
SendFirstRequest(c, reply) ==
    /\ calls[c].pc = "first_request"
    /\ calls' = [calls EXCEPT ![c].sent = Append(@, calls[c].client.api_key),
                              ![c].pc = IF reply = "tool_calls" THEN "second_request"
                                        ELSE "done"]
    /\ UNCHANGED <<clients, handleSeq, genaiKey, ai, ivars, nvars, rvars, pvars, uvars,
                   avars, hvars>>

\* the second completion request, sent through the same local client
SendSecondRequest(c) ==
    /\ calls[c].pc = "second_request"
    /\ calls' = [calls EXCEPT ![c].sent = Append(@, calls[c].client.api_key),
                              ![c].pc = "done"]
    /\ UNCHANGED <<clients, handleSeq, genaiKey, ai, ivars, nvars, rvars, pvars, uvars,
                   avars, hvars>>

\* _call_gemini_pro, awaited: genai.configure and chat.send_message run with
\* no await between them, the request goes out with the key just configured
CallGeminiPro(c, api_key) ==
    /\ calls[c].pc \in {"idle", "done"}
    /\ genaiKey' = api_key
    /\ calls' = [calls EXCEPT ![c] =
           [pc |-> "done", provider |-> "gemini", api_key |-> api_key,
            client |-> NoClient, sent |-> <<genaiKey'>>]]
    /\ UNCHANGED <<clients, handleSeq, ai, ivars, nvars, rvars, pvars, uvars, avars, hvars>>

NextClients ==
    \/ \E c \in Callers, provider \in HandleProviders, api_key \in ApiKeys :
            CallProvider(c, provider, api_key)
    \/ \E c \in Callers, reply \in Replies \cup {"error"} : SendFirstRequest(c, reply)
    \/ \E c \in Callers : SendSecondRequest(c)
    \/ \E c \in Callers, api_key \in ApiKeys : CallGeminiPro(c, api_key)

InitClients ==
    /\ clients = [provider \in HandleProviders |-> NoClient]
    /\ handleSeq = 0
    /\ genaiKey = "none"
    /\ calls = [c \in Callers |-> IdleCall]

InitApplications ==
    /\ applications = {}
    /\ appSeq = 1
    /\ uploads = {}
    /\ fileSeq = 1
    /\ request = NoRequest
    /\ status = 0
    /\ listing = <<>>

\* what the first four parts of the model leave alone
InitAdded == InitProfileTable /\ InitApplications /\ ai = NoAiCall /\ InitClients

Init ==
    /\ interviews = {}
    /\ nextId = 1
    /\ lastCall = NoCall
    /\ outcome = "none"
    /\ writers = [w \in Writers |-> Idle]
    /\ wrapping = NoWrapping
    /\ response = <<>>
    /\ result = NoResult
    /\ repairs = <<>>
    /\ resume = NoResume
    /\ profile = NoProfile
    /\ http = 0
    /\ InitAdded

InitNorm ==
    /\ interviews = {}
    /\ nextId = 1
    /\ lastCall = NoCall
    /\ outcome = "none"
    /\ writers = [w \in Writers |-> Idle]
    /\ wrapping \in Wrappings
    /\ response = Wrap(wrapping)
    /\ result = NoResult
    /\ repairs = <<>>
    /\ resume = NoResume
    /\ profile = NoProfile
    /\ http = 0
    /\ InitAdded

InitRepair ==
    /\ interviews = {}
    /\ nextId = 1
    /\ lastCall = NoCall
    /\ outcome = "none"
    /\ writers = [w \in Writers |-> Idle]
    /\ wrapping = NoWrapping
    /\ response = <<>>
    /\ result = NoResult
    /\ \E t \in RepairTexts : repairs = <<t>>
    /\ resume = NoResume
    /\ profile = NoProfile
    /\ http = 0
    /\ InitAdded

InitResume ==
    /\ interviews = {}
    /\ nextId = 1
    /\ lastCall = NoCall
    /\ outcome = "none"
    /\ writers = [w \in Writers |-> Idle]
    /\ wrapping = NoWrapping
    /\ response = <<>>
    /\ result = NoResult
    /\ repairs = <<>>
    /\ resume \in Resumes
    /\ profile \in {NoProfile, EmptyProfile}
    /\ http = 0
    /\ InitAdded

Next ==
    \/ \E s \in Times, e \in Times : CreateInterview(s, e)
    \/ \E id \in Ids, s \in Times, e \in Times : UpdateInterview(id, s, e)
    \/ \E id \in Ids : DeleteInterview(id)

NextConc ==
    \/ \E w \in Writers, s \in ConcTimes, e \in ConcTimes : ConcCheckCreate(w, s, e)
    \/ \E w \in Writers : ConcInsert(w)
    \/ \E w \in Writers, id \in ConcIds, s \in ConcTimes, e \in ConcTimes :
            ConcCheckUpdate(w, id, s, e)
    \/ \E w \in Writers : ConcUpdate(w)
    \/ \E w \in Writers, id \in ConcIds : ConcDelete(w, id)

NextNorm == ParseResponse

NextRepair == ApplyRepair

NextResume == FillProfileFromResumeAi

vars == <<ivars, nvars, rvars, pvars, xvars>>

Spec == Init /\ [][Next]_vars

SpecNorm == InitNorm /\ [][NextNorm]_vars

SpecRepair == InitRepair /\ [][NextRepair]_vars

SpecResume == InitResume /\ [][NextResume]_vars

SpecConc == Init /\ [][NextConc]_vars

NextProfile ==
    \/ \E profile_data \in ProfileDicts : SaveProfile(profile_data)
    \/ GetProfile

NextProfileConc ==
    \/ \E w \in Writers, profile_data \in ConcProfileDicts : ConcSelectProfile(w, profile_data)
    \/ \E w \in Writers : ConcWriteProfile(w)

NextApps ==
    \/ \E d \in Dates, f \in Files \cup {NoFile} : CreateApplication(d, f)
    \/ \E d \in Dates \cup {MalformedDate}, f \in BOOLEAN : AddApplication(d, f)
    \/ GetApplications
    \/ \E id \in AppIds \cup {NotAnInteger} : GetApplication(id)
    \/ \E id \in AppIds \cup {NotAnInteger}, d \in Dates \cup {MalformedDate}, f \in BOOLEAN :
            UpdateApplication(id, d, f)
    \/ \E id \in AppIds \cup {NotAnInteger}, r \in BOOLEAN, f \in BOOLEAN :
            DeleteApplication(id, r, f)

NextInterviewApi ==
    \/ \E s \in Times, e \in Times : CreateInterview(s, e)
    \/ \E s \in Times, e \in Times : AddInterview(s, e)
    \/ \E id \in Ids \cup {NotAnInteger} : GetInterview(id)
    \/ \E id \in Ids \cup {NotAnInteger}, s \in Times, e \in Times : PutInterview(id, s, e)
    \/ \E id \in Ids \cup {NotAnInteger} : RemoveInterview(id)
    \/ GetAllInterviews

SpecApps == Init /\ [][NextApps]_vars

SpecInterviewApi == Init /\ [][NextInterviewApi]_vars

SpecProfile == Init /\ [][NextProfile]_vars

SpecProfileConc == Init /\ [][NextProfileConc]_vars

(***************************************************************************)
(* Properties of the scheduling guard.                                     *)
(***************************************************************************)
\* the half-open intersection test of two ranges
Intersects(s1, e1, s2, e2) == s1 < e2 /\ e1 > s2

\* C1: after any sequence of create_interview, update_interview and
\* delete_interview calls, each run to completion, no two distinct stored
\* interviews A, B have A.start < B.end and A.end > B.start.
C1_NoStoredOverlap ==
    \A a \in interviews, b \in interviews :
        a.id # b.id =>
            ~Intersects(a.start_datetime, a.end_datetime, b.start_datetime, b.end_datetime)

C1_Witness ==
    /\ Cardinality(interviews) >= 2
    /\ lastCall.op = "update"
    /\ outcome = "ok"
    /\ \E r \in interviews : r.id = lastCall.id /\ r.start_datetime < r.end_datetime

\* C2: check and write are one atomic step, so with concurrent writers no
\* interleaving reaches a state with two overlapping stored interviews.
C2_ConcurrentWritersNeverOverlap ==
    \A a \in interviews, b \in interviews :
        (a.id < b.id /\ a.start_datetime < a.end_datetime /\ b.start_datetime < b.end_datetime)
            => (a.end_datetime <= b.start_datetime \/ b.end_datetime <= a.start_datetime)

\* C3: a create_interview / update_interview whose range intersects a stored
\* interview (other than the one being updated) fails with the conflict error
\* and leaves the stored interviews exactly as they were.
C3_ConflictRejectedNoMutation ==
    [][(/\ lastCall'.op \in {"create", "update"}
        /\ \E r \in interviews :
              /\ r.id # lastCall'.id
              /\ Intersects(r.start_datetime, r.end_datetime,
                            lastCall'.start_datetime, lastCall'.end_datetime))
       => (outcome' = "ValueError" /\ interviews' = interviews)]_vars

C3_Witness ==
    /\ lastCall.op = "create"
    /\ outcome = "ValueError"
    /\ \E r \in interviews :
          /\ r.start_datetime = 0 /\ r.end_datetime = 2
          /\ lastCall.start_datetime = 1 /\ lastCall.end_datetime = 3

\* C4: create_interview / update_interview with start >= end always fail with
\* an invalid-range error and store nothing, so every stored interview has
\* start < end.
C4_InvalidRangeRejected ==
    /\ (lastCall.op \in {"create", "update"} /\ lastCall.start_datetime >= lastCall.end_datetime)
          => outcome = "InvalidRangeError"
    /\ \A r \in interviews : r.start_datetime < r.end_datetime

(***************************************************************************)
(* Properties of the reply normaliser.                                     *)
(***************************************************************************)
IsNoJsonError(r) == r.kind = "raise" /\ r.exc = "ValueError" /\ r.msg = <<NoJsonFound>>
IsUnparseableError(r) ==
    r.kind = "raise" /\ r.exc = "ValueError" /\ Len(r.msg) >= 1 /\ r.msg[1] = FailedAfterCleaning

\* a occurs in b as a run of consecutive elements
IsInfix(a, b) ==
    \E i \in 0..(Len(b) - Len(a)) : \A k \in 1..Len(a) : b[i + k] = a[k]

\* J is the text of a JSON object or array
IsJsonContainer(J) == JsonLoads(J).ok /\ JsonLoads(J).val.t \in {"arr", "obj"}

\* C5: for every valid JSON object or array text J, the normaliser applied to
\* a reply that wraps J in a ```json fence returns the value of J.
C5_FencedRoundTrip ==
    (result.kind # "none" /\ wrapping.fenced /\ IsJsonContainer(wrapping.body))
        => (result.kind = "return" /\ result.value = JsonLoads(wrapping.body).val)

\* C6: the reply 'Here you go:' followed by a ```json fence holding
\* {"a": 1,} yields the object {"a": 1} (the trailing comma is stripped).
C6_TrailingCommaExample ==
    (result.kind # "none" /\ wrapping = [prose |-> TRUE, fenced |-> TRUE, body |-> ObjA1Comma])
        => (/\ result.kind = "return"
            /\ result.value = JObj(<< <<"a">> >>, <<JNum(1)>>))

\* some opener of the text has a closer somewhere after it
HasBracketPair(t) ==
    \E i \in 1..Len(t), j \in 1..Len(t) : i < j /\ t[i] \in Openers /\ t[j] \in Closers

\* the text has ```json, whitespace, an opener, anything, a closer, whitespace, ```
HasFencedJson(t) ==
    \E i \in 1..Len(t) :
        /\ MatchAt(t, i, FenceOpen)
        /\ \E p \in (i + Len(FenceOpen))..Len(t) :
              /\ t[p] \in Openers
              /\ \A x \in (i + Len(FenceOpen))..(p - 1) : t[x] \in Whitespace
              /\ \E q \in (p + 1)..Len(t) :
                    /\ t[q] \in Closers
                    /\ \E c \in (q + 1)..Len(t) :
                          /\ MatchAt(t, c, FenceClose)
                          /\ \A x \in (q + 1)..(c - 1) : t[x] \in Whitespace

\* C7: the normaliser fails with the no-JSON-found error exactly when the reply
\* has neither a ```json fenced block nor an opener with a closer after it; a
\* reply without braces and brackets always fails this way; and this error is
\* not the unparseable-response error.
C7_NoJsonFoundExactly ==
    result.kind # "none" =>
        /\ IsNoJsonError(result)
              <=> (~HasFencedJson(response) /\ ~HasBracketPair(response))
        /\ (\A i \in 1..Len(response) : response[i] \notin (Openers \cup Closers))
              => IsNoJsonError(result)
        /\ ~(IsNoJsonError(result) /\ IsUnparseableError(result))
        /\ result.kind = "raise" => (IsNoJsonError(result) \/ IsUnparseableError(result))

C7_Witness ==
    /\ IsNoJsonError(result)
    /\ \E i \in 1..Len(response), j \in 1..Len(response) :
          i < j /\ response[i] \in Closers /\ response[j] \in Openers

\* C8: when the parse still fails after the repair, the error raised carries
\* both the cleaned (repaired) text and the original reply.
C8_ErrorCarriesCleanedAndOriginal ==
    IsUnparseableError(result) =>
        /\ IsInfix(response, result.msg)
        /\ IsInfix(StripTrailingCommas(ExtractJsonText(response)), result.msg)

(***************************************************************************)
(* Properties of the repair step.                                          *)
(***************************************************************************)
\* C9: repairing a repaired text changes nothing: repair(repair(t)) = repair(t)
\* for every text t, also with several commas before a closing bracket.
C9_RepairIdempotent ==
    Len(repairs) = 3 => repairs[3] = repairs[2]

(***************************************************************************)
(* Properties of the resume-extraction request.                            *)
(***************************************************************************)
Complete(fields) == {1, 2} \subseteq fields

\* the entries of a list that have both "position" and "company"
RECURSIVE KeepComplete(_, _)
KeepComplete(entries, i) ==
    IF i > Len(entries) THEN <<>>
    ELSE (IF Complete(entries[i]) THEN <<entries[i]>> ELSE <<>>) \o KeepComplete(entries, i + 1)

\* C10: an extracted experience entry that lacks "position" or "company" is
\* dropped from the final experience list, the remaining profile is still
\* produced and saved, and the request does not fail because of the entry.
C10_IncompleteExperienceDropped ==
    (/\ http # 0
     /\ resume.filename
     /\ \E i \in 1..Len(resume.experience) : ~Complete(resume.experience[i]))
        => (/\ http = 200
            /\ profile.exists
            /\ Len(profile.experience) = Len(KeepComplete(resume.experience, 1)))

\* C11: an extracted skill entry that has a name but no "level" is kept, with
\* level "Advanced", in the skills list of the saved profile.
C11_SkillLevelDefaultsToAdvanced ==
    (/\ http # 0
     /\ resume.filename
     /\ \E i \in 1..Len(resume.skills) : resume.skills[i] = {1})
        => (/\ http = 200
            /\ profile.exists
            /\ Len(profile.skills) = Len(resume.skills)
            /\ \A i \in 1..Len(resume.skills) :
                  resume.skills[i] = {1}
                      => profile.skills[i] = <<"A", "d", "v", "a", "n", "c", "e", "d">>)

(***************************************************************************)
(* Properties of the user_profile table.                                   *)
(***************************************************************************)
\* C12: the user profile is a singleton: after any sequence of save_profile
\* calls, two concurrent first saves included, at most one row is stored.
C12_ProfileSingleton == Cardinality(user_profile) <= 1

\* Python's == on values: dicts are equal whatever the order of their keys
RECURSIVE PyEq(_, _)
PyEq(a, b) ==
    IF a.t # b.t THEN FALSE
    ELSE IF a.t = "arr"
    THEN Len(a.a) = Len(b.a) /\ \A i \in 1..Len(a.a) : PyEq(a.a[i], b.a[i])
    ELSE IF a.t = "obj"
    THEN /\ Len(a.k) = Len(b.k)
         /\ \A i \in 1..Len(a.k) : HasKey(b, a.k[i]) /\ PyEq(a.a[i], Get(b, a.k[i]))
    ELSE a = b

\* the field values of p: an absent list is empty, any other absent field None
FieldValues(p) ==
    [c \in Columns |-> IF p[c] # Absent THEN p[c]
                       ELSE IF c \in ListColumns THEN JArr(<<>>) ELSE PyNone]

\* C13: save_profile is a whole-record overwrite.  After save_profile(p) the
\* stored row holds the field values of p and nothing of the row it replaced
\* (a field absent from p is stored empty), and a get_profile that follows a
\* save_profile(p) that returned gives exactly the field values of p.
C13_SaveOverwritesWholeRecord ==
    [][/\ profileCall'.op = "save" =>
            \A r \in user_profile' : \A c \in Columns :
                IF c \in ListColumns
                THEN PyEq(JsonLoads(r.data[c].s).val, FieldValues(profileCall'.profile_data)[c])
                ELSE r.data[c] = FieldValues(profileCall'.profile_data)[c]
       /\ (profileCall.op = "save" /\ profileCall.kind = "return" /\ profileCall'.op = "get")
            => /\ profileCall'.kind = "return"
               /\ \A c \in Columns :
                     PyEq(profileCall'.data[c], FieldValues(profileCall.profile_data)[c])]_vars

C13_Witness ==
    /\ profileCall.op = "save"
    /\ profileCall.kind = "return"
    /\ profileCall.replaced["linkedin_url"] = JStr(Bob)
    /\ profileCall.replaced["full_name"] = JStr(Ann)
    /\ Len(profileCall.replaced["skills"].s) > 2
    /\ profileCall.profile_data["linkedin_url"] = Absent
    /\ profileCall.profile_data["skills"] = Absent
    /\ profileCall.profile_data["full_name"] = JStr(Bob)
    /\ \E r \in user_profile : r.data["linkedin_url"] = PyNone

SpecAi == Init /\ [][NextAi]_vars

SpecClients == Init /\ [][NextClients]_vars

(***************************************************************************)
(* Properties of the application and interview endpoints.                  *)
(***************************************************************************)
\* C14: when delete_application has answered for an application whose CV file
\* is in the upload store, record and file are either both removed (and the
\* request succeeded) or both still there (and it failed); the file is never
\* gone while the record is still stored.
C14_DeleteRemovesRecordAndFileTogether ==
    [][(/\ request'.op = "delete_application"
        /\ \E r \in applications : r.id = request'.id /\ r.cv_file \in uploads)
       => LET r == CHOOSE x \in applications : x.id = request'.id
          IN  \/ r \notin applications' /\ r.cv_file \notin uploads' /\ status' = 200
              \/ r \in applications' /\ r.cv_file \in uploads' /\ status' # 200]_vars

GetInterviewRoute == "GET /api/interviews/{interview_id}"
PutInterviewRoute == "PUT /api/interviews/{interview_id}"
DeleteInterviewRoute == "DELETE /api/interviews/{interview_id}"

\* C15: a get, update or delete of an application or of an interview whose
\* identity no stored record has is answered 404: never with success, never
\* with another error.
C15_UnknownIdentityIsNotFound ==
    [][/\ (/\ request'.op \in {"get_application", "update_application", "delete_application"}
           /\ ~\E r \in applications : r.id = request'.id)
          => status' = 404
       /\ (/\ lastCall'.op \in {GetInterviewRoute, PutInterviewRoute, DeleteInterviewRoute}
           /\ ~\E r \in interviews : r.id = lastCall'.id)
          => status' = 404]_vars

\* C16: an interview create or update request whose range intersects another
\* stored interview is answered 409, which is not the 400 of a validation error.
C16_ConflictIsAnswered409 ==
    [][(/\ lastCall'.op \in {"POST /api/interviews", PutInterviewRoute}
        /\ \E r \in interviews :
              /\ r.id # lastCall'.id
              /\ Intersects(r.start_datetime, r.end_datetime,
                            lastCall'.start_datetime, lastCall'.end_datetime))
       => (status' = 409 /\ status' # 400)]_vars

\* C17: an add_application or update_application request with a malformed
\* application_date is rejected and changes nothing: no application row is
\* written or changed, no file of the upload store is created or removed.
C17_MalformedDateChangesNothing ==
    [][(/\ request'.op \in {"add_application", "update_application"}
        /\ request'.application_date = MalformedDate)
       => (status' # 200 /\ applications' = applications /\ uploads' = uploads)]_vars

\* the sequence holds each row of the set once, keys in descending order
IsNewestFirst(seq, rows, column) ==
    /\ Len(seq) = Cardinality(rows)
    /\ {seq[i] : i \in 1..Len(seq)} = rows
    /\ \A i \in 1..Len(seq), j \in 1..Len(seq) : i < j => seq[i][column] >= seq[j][column]

\* C18: the list operations return all rows newest first: the applications by
\* application_date descending, the interviews by start_datetime descending.
C18_ListsAreNewestFirst ==
    /\ request.op = "get_applications" => IsNewestFirst(listing, applications, ApplicationDate)
    /\ lastCall.op = "get_all_interviews" => IsNewestFirst(listing, interviews, StartDatetime)

(***************************************************************************)
(* Properties of the AI service.                                           *)
(***************************************************************************)
\* C19: for every provider value the endpoints accept (openai, gemini,
\* claude) _call_ai_model dispatches to the provider's call and what the
\* awaited call gives is the reply text or the provider's error: never the
\* 'Unsupported AI provider.' error, never a value that is not a text.
C19_AcceptedProvidersAreDispatched ==
    (ai.provider \in AIProviders /\ ai.awaited /\ ai.pc \in {"returned", "raised", "done"})
        => /\ ai.value \notin {"Unsupported AI provider.", "coroutine"}
           /\ ai.pc = "returned" => ai.value = "text"

\* C20: within one request a failed completion request is the last request
\* sent to the provider, the call ends by raising the wrapped error, and an
\* endpoint answers it with status 500.
C20_FailedRequestIsNotRetried ==
    \A i \in 1..Len(ai.sent) :
        ai.sent[i] \in ProviderErrors
            => /\ i = Len(ai.sent)
               /\ ai.pc \in {"raised", "done"}
               /\ ai.value = "Exception"
               /\ (ai.pc = "done" /\ ai.entry = "endpoint") => status = 500

\* an endpoint has answered a request whose second completion request failed
C20_Witness ==
    /\ ai.pc = "done"
    /\ ai.entry = "endpoint"
    /\ Len(ai.sent) = 2
    /\ ai.sent[2] \in ProviderErrors
    /\ status = 500

(***************************************************************************)
(* Further properties of the scheduling guard.                             *)
(***************************************************************************)
\* C21: _check_overlap(start, end, exclude_id) answers true exactly when some
\* stored interview other than exclude_id has existing.start < end and
\* existing.end > start, for every candidate range, zero-length and reversed
\* ranges included; create_interview and update_interview raise the conflict
\* error exactly when it answers true.
C21_CheckOverlapIsHalfOpenTest ==
    [][lastCall'.op \in {"create", "update"}
       => ((outcome' = "ValueError")
             <=> \E r \in interviews :
                    /\ r.id # lastCall'.id
                    /\ Intersects(r.start_datetime, r.end_datetime,
                                  lastCall'.start_datetime, lastCall'.end_datetime))]_vars

\* C22: an update_interview of a stored interview to a range that intersects
\* its own old range and no other stored interview succeeds and stores the
\* range, while create_interview with a range that intersects a stored
\* interview is rejected.
C22_UpdateChecksOnlyOtherInterviews ==
    [][/\ (/\ lastCall'.op = "update"
           /\ \E r \in interviews :
                 /\ r.id = lastCall'.id
                 /\ Intersects(r.start_datetime, r.end_datetime,
                               lastCall'.start_datetime, lastCall'.end_datetime)
           /\ \A r \in interviews :
                 r.id # lastCall'.id =>
                     ~Intersects(r.start_datetime, r.end_datetime,
                                 lastCall'.start_datetime, lastCall'.end_datetime))
          => /\ outcome' = "ok"
             /\ [id |-> lastCall'.id, start_datetime |-> lastCall'.start_datetime,
                 end_datetime |-> lastCall'.end_datetime] \in interviews'
       /\ (/\ lastCall'.op = "create"
           /\ \E r \in interviews :
                 Intersects(r.start_datetime, r.end_datetime,
                            lastCall'.start_datetime, lastCall'.end_datetime))
          => outcome' = "ValueError"]_vars

\* the range touches the row: it starts where the row ends or ends where the
\* row starts
Touches(r, start_dt, end_dt) == start_dt = r.end_datetime \/ end_dt = r.start_datetime

\* C23: a create_interview or update_interview whose range touches a stored
\* interview and intersects no stored interview (other than the one being
\* updated) is not rejected as a conflict.
C23_TouchingIsNotAnOverlap ==
    [][(/\ lastCall'.op \in {"create", "update"}
        /\ \E r \in interviews :
              /\ r.id # lastCall'.id
              /\ Touches(r, lastCall'.start_datetime, lastCall'.end_datetime)
        /\ \A r \in interviews :
              r.id # lastCall'.id =>
                  ~Intersects(r.start_datetime, r.end_datetime,
                              lastCall'.start_datetime, lastCall'.end_datetime))
       => outcome' # "ValueError"]_vars

\* C30: delete_interview removes the rows with the given id and no other row,
\* so a second call for the same id changes nothing, and rows that did not
\* intersect before the delete do not intersect after it.
C30_DeleteRemovesOnlyThatInterview ==
    [][lastCall'.op = "delete"
       => /\ interviews' \subseteq interviews
          /\ \A r \in interviews : r \notin interviews' <=> r.id = lastCall'.id
          /\ ((\A r \in interviews : r.id # lastCall'.id) => interviews' = interviews)
          /\ (\A a \in interviews, b \in interviews :
                 a.id # b.id => ~Intersects(a.start_datetime, a.end_datetime,
                                            b.start_datetime, b.end_datetime))
             => (\A a \in interviews', b \in interviews' :
                    a.id # b.id => ~Intersects(a.start_datetime, a.end_datetime,
                                               b.start_datetime, b.end_datetime))]_vars

\* a delete has removed one of two stored interviews
C30_Witness ==
    /\ lastCall.op = "delete"
    /\ outcome = "ok"
    /\ lastCall.id < nextId
    /\ \A r \in interviews : r.id # lastCall.id
    /\ interviews # {}

(***************************************************************************)
(* Further properties of the reply normaliser.                             *)
(***************************************************************************)
\* C24: a reply without a fenced block that holds the nested value
\* {"a": {"b": 1}} after a line of prose is extracted whole (from the first
\* opener to its matching closer) and parsed to that value.
C24_NestedValueExtractedWhole ==
    (result.kind # "none" /\ wrapping = [prose |-> TRUE, fenced |-> FALSE, body |-> ObjNested])
        => (/\ result.kind = "return"
            /\ result.value = JObj(<< <<"a">> >>, <<JObj(<< <<"b">> >>, <<JNum(1)>>)>>))

\* C25: a candidate that is valid JSON but for the tokens None, True and False
\* is parsed on the retry, the tokens read as null, true and false.
C25_PythonLiteralsRepaired ==
    /\ (result.kind # "none" /\ wrapping.body = ArrNone)
          => (result.kind = "return" /\ result.value = JArr(<<JLit("null")>>))
    /\ (result.kind # "none" /\ wrapping.body = ArrTrueFalse)
          => (result.kind = "return" /\ result.value = JArr(<<JLit("true"), JLit("false")>>))

\* C26: a call parses the candidate text at most twice, and it ends with a
\* parsed value, with the no-JSON-found error or with the unparseable error.
C26_RepairIsBounded ==
    result.kind # "none" =>
        /\ result.parses <= 2
        /\ \/ result.kind = "return" /\ result.parses \in {1, 2}
           \/ IsNoJsonError(result) /\ result.parses = 0
           \/ IsUnparseableError(result) /\ result.parses = 2

\* a call that parsed the candidate, repaired it, parsed it again and gave up
C26_Witness ==
    /\ IsUnparseableError(result)
    /\ result.parses = 2
    /\ StripTrailingCommas(ExtractJsonText(response)) # ExtractJsonText(response)

(***************************************************************************)
(* Properties of the provider clients.                                     *)
(***************************************************************************)
\* caller c enters _call_openai / _call_anthropic in this step
EntersCall(c) == calls[c].pc \in {"idle", "done"} /\ calls'[c].pc = "first_request"

\* C27 as stated: once a provider's handle exists, every later call to the
\* provider gets that handle and none is constructed.
C27_HandleCreatedOnce ==
    [][\A c \in Callers :
          (EntersCall(c) /\ clients[calls'[c].provider] # NoClient)
              => /\ calls'[c].client = clients[calls'[c].provider]
                 /\ handleSeq' = handleSeq]_vars

\* C27 amended: the handle is constructed on the first call to the provider
\* and on a call whose API key differs from the stored handle's key; a call
\* with the stored handle's key gets the stored handle and constructs none.
C27_HandleReusedWhileKeyUnchanged ==
    [][\A c \in Callers :
          EntersCall(c)
              => LET stored == clients[calls'[c].provider]
                 IN  IF stored # NoClient /\ stored.api_key = calls'[c].api_key
                     THEN /\ calls'[c].client = stored
                          /\ clients' = clients
                          /\ handleSeq' = handleSeq
                     ELSE /\ calls'[c].client = clients'[calls'[c].provider]
                          /\ calls'[c].client.api_key = calls'[c].api_key
                          /\ calls'[c].client.id > handleSeq
                          /\ handleSeq' = handleSeq + 1]_vars

\* two calls hold the one handle that was ever constructed
C27_Witness ==
    /\ handleSeq = 1
    /\ calls[1].client # NoClient
    /\ calls[1].client = calls[2].client

\* C28: every completion request a call has sent went out with the API key of
\* that call, however the calls of other requests are interleaved with it.
C28_RequestSentWithOwnKey ==
    \A c \in Callers :
        \A i \in 1..Len(calls[c].sent) : calls[c].sent[i] = calls[c].api_key

\* a call with another key replaced the provider's handle while a call that
\* has sent its first request waits to send its second
C28_Witness ==
    \E c \in Callers, d \in Callers :
        /\ calls[c].pc = "second_request"
        /\ calls[d].pc = "first_request"
        /\ calls[c].provider = calls[d].provider
        /\ calls[c].api_key # calls[d].api_key
        /\ clients[calls[d].provider] = calls[d].client

(***************************************************************************)
(* Further properties of the application endpoints.                        *)
(***************************************************************************)
\* the stored application names a CV file that is not in the upload store
Dangling(r, store) == r.cv_file # NoFile /\ r.cv_file \notin store

\* C29: an add, update or delete application request, failed ones included,
\* leaves no stored application with a cv_file reference to a file missing
\* from the upload store, unless the reference was dangling before it.
C29_NoDanglingCvReference ==
    [][request'.op \in {"add_application", "update_application", "delete_application"}
       => \A r \in applications' :
             Dangling(r, uploads')
                 => \E q \in applications :
                       q.id = r.id /\ q.cv_file = r.cv_file /\ Dangling(q, uploads)]_vars

====
